---- MODULE Spec2Model ----
(***************************************************************************)
(* Model of src/robot_control/simple_ur_script.py: the UR Script builders. *)
(*                                                                         *)
(* Text is a sequence of one-character strings, so that spacing, tabs and  *)
(* newlines of the emitted script are compared character by character.     *)
(*                                                                         *)
(* A float is a record [nan, v]: v counts ten-thousandths (Unit = 10^4),   *)
(* so 2.5 is 25000 and 1000 mm is 10000000.  nan = TRUE is IEEE NaN.  The  *)
(* inputs are drawn from grids on which the binary float nearest to the    *)
(* decimal value formats to that decimal value (no rounding ties).         *)
(***************************************************************************)
EXTENDS Integers, Sequences, FiniteSets, TLC

VARIABLES op, args, out, raised, fmt, extracted

vars == <<op, args, out, raised, fmt, extracted>>

\* ------------------------------------------------------------------ bounds
\* Inputs for accel, vel and blend_radius range over -MaxQ/2 .. MaxQ/2.
MaxQ == 6
\* Digital / analog ids range over 0 .. MaxId.
MaxId == 2

\* ------------------------------------------------------------------ floats
Unit == 10 * 1000

Fin(n) == [nan |-> FALSE, v |-> n]
NaN == [nan |-> TRUE, v |-> 0]

\* abs(x): NaN stays NaN.
Abs(x) == IF x.nan THEN x ELSE Fin(IF x.v < 0 THEN -x.v ELSE x.v)

\* x > y on floats: every comparison with NaN is False.
Gt(x, y) == ~x.nan /\ ~y.nan /\ x.v > y.v

\* x / 1000 (true division; the grids keep it exact).
Div1000(x) == IF x.nan THEN x ELSE Fin(x.v \div 1000)

\* Some Constants
MAX_ACCEL == 25 * (Unit \div 10)
MAX_VELOCITY == 25 * (Unit \div 10)

\* ------------------------------------------------------------------ text
RECURSIVE Digits(_)
\* The decimal digits of a natural number.
Digits(n) ==
    LET d == <<"0","1","2","3","4","5","6","7","8","9">>[(n % 10) + 1]
    IN IF n < 10 THEN <<d>> ELSE Digits(n \div 10) \o <<d>>

RECURSIVE Pow10(_)
Pow10(k) == IF k = 0 THEN 1 ELSE 10 * Pow10(k - 1)

RECURSIVE ZeroPad(_, _)
\* s left-padded with "0" to width w.
ZeroPad(s, w) == IF Len(s) >= w THEN s ELSE ZeroPad(<<"0">> \o s, w)

\* "%.<d>f" % x, for d in 0..4: round to d decimals (half to even), sign kept.
FmtF(x, d) ==
    IF x.nan THEN <<"n","a","n">>
    ELSE LET scale == Pow10(4 - d)
             mag == IF x.v < 0 THEN -x.v ELSE x.v
             q0 == mag \div scale
             r == mag % scale
             q == IF 2 * r > scale \/ (2 * r = scale /\ q0 % 2 = 1)
                  THEN q0 + 1 ELSE q0
             sign == IF x.v < 0 THEN <<"-">> ELSE <<>>
             frac == IF d = 0 THEN <<>>
                     ELSE <<".">> \o ZeroPad(Digits(q % Pow10(d)), d)
         IN sign \o Digits(q \div Pow10(d)) \o frac

RECURSIVE Join(_, _)
\* sep.join(parts) for a sequence of texts.
Join(parts, sep) ==
    IF Len(parts) = 0 THEN <<>>
    ELSE IF Len(parts) = 1 THEN parts[1]
    ELSE parts[1] \o sep \o Join(Tail(parts), sep)

\* "p[" + ("%.4f,"*6)[:-1] + "]" % tuple(_pose)
PoseFmt(pose) ==
    <<"p","[">> \o Join([i \in 1..6 |-> FmtF(pose[i], 4)], <<",">>) \o <<"]">>

\* ------------------------------------------------------------------ planes
\* A Rhino plane: origin (mm) and the unit X and Y axes (integer components).
Vec(a, b, c) == <<a, b, c>>
WorldXY == [origin |-> <<Fin(0), Fin(0), Fin(0)>>,
            xaxis |-> Vec(1, 0, 0), yaxis |-> Vec(0, 1, 0)]

Cross(a, b) == <<a[2] * b[3] - a[3] * b[2],
                 a[3] * b[1] - a[1] * b[3],
                 a[1] * b[2] - a[2] * b[1]>>

\* rg.Transform.PlaneToPlane(rg.Plane.WorldXY, plane): the rotation part of
\* the change of basis, M[r][c], whose columns are the plane's X, Y, Z axes.
PlaneToPlane(plane) ==
    LET z == Cross(plane.xaxis, plane.yaxis)
    IN [r \in 1..3 |-> <<plane.xaxis[r], plane.yaxis[r], z[r]>>]

\* pi/2 in ten-thousandths (1.5708).
HalfPi == 15 * 1000 + 708

\* utils.matrix_to_axis_angle: axis * angle by the trace method, for the
\* rotations of the model (angle 0: trace 3; angle 90 degrees: trace 1).
matrix_to_axis_angle(m) ==
    LET trace == m[1][1] + m[2][2] + m[3][3]
    IN IF trace = 3 THEN <<Fin(0), Fin(0), Fin(0)>>
       ELSE <<Fin(((m[3][2] - m[2][3]) \div 2) * HalfPi),
              Fin(((m[1][3] - m[3][1]) \div 2) * HalfPi),
              Fin(((m[2][1] - m[1][2]) \div 2) * HalfPi)>>

\* [OriginX/1000, OriginY/1000, OriginZ/1000, _axis_angle[0..2]]
PlanePose(plane) ==
    LET aa == matrix_to_axis_angle(PlaneToPlane(plane))
    IN <<Div1000(plane.origin[1]), Div1000(plane.origin[2]),
         Div1000(plane.origin[3]), aa[1], aa[2], aa[3]>>

\* ------------------------------------------------------------------ clamps
\* Mutant: the limit is tested on the signed value and the sign is kept.
ClampAccelSigned(accel) ==
    IF Gt(accel, Fin(MAX_ACCEL)) THEN Fin(MAX_ACCEL) ELSE accel

\* accel = MAX_ACCEL if (abs(accel) > MAX_ACCEL) else abs(accel)
ClampAccel(accel) ==
    IF Gt(Abs(accel), Fin(MAX_ACCEL)) THEN Fin(MAX_ACCEL) ELSE Abs(accel)

\* vel = MAX_VELOCITY if (abs(vel) > MAX_VELOCITY) else abs(vel)
ClampVel(vel) ==
    IF Gt(Abs(vel), Fin(MAX_VELOCITY)) THEN Fin(MAX_VELOCITY) ELSE Abs(vel)

\* Mutant: abs() in place of max(0, .), as for accel and vel.
ClampBlendAbs(blend_radius) == Abs(blend_radius)

\* blend_radius = max(0, blend_radius): the later item wins only if greater.
ClampBlend(blend_radius) ==
    IF Gt(blend_radius, Fin(0)) THEN blend_radius ELSE Fin(0)

\* ------------------------------------------------------------------ motion
\* What a builder hands back: the script, the exception raised ("none" when
\* it returns), the floats given to the a, v and r format fields, and whether
\* utils.matrix_to_axis_angle was called.
Returned(script, a, v, r, ex) ==
    [script |-> script, raised |-> "none", a |-> a, v |-> v, r |-> r,
     extracted |-> ex]
Raised(exc) ==
    [script |-> <<>>, raised |-> exc, a |-> Fin(0), v |-> Fin(0), r |-> Fin(0),
     extracted |-> FALSE]

\* Mutant: the "%.3f" of the blend moves used for a and v.
move_l_3dec(plane_to, accel, vel) ==
    LET a == ClampAccel(accel)
        v == ClampVel(vel)
        script == <<"m","o","v","e","l","(">> \o PoseFmt(PlanePose(plane_to))
                  \o <<","," ","a"," ","="," ">> \o FmtF(a, 3)
                  \o <<","," ","v"," ","="," ">> \o FmtF(v, 3)
                  \o <<")","\n">>
    IN Returned(script, a, v, Fin(0), TRUE)

\* "movel(%s, a = %.2f, v = %.2f)\n"
move_l(plane_to, accel, vel) ==
    LET a == ClampAccel(accel)
        v == ClampVel(vel)
        script == <<"m","o","v","e","l","(">> \o PoseFmt(PlanePose(plane_to))
                  \o <<","," ","a"," ","="," ">> \o FmtF(a, 2)
                  \o <<","," ","v"," ","="," ">> \o FmtF(v, 2)
                  \o <<")","\n">>
    IN Returned(script, a, v, Fin(0), TRUE)

\* "%s(%s, a = %.3f, v = %.3f, r = %.3f)\n", shared by the two blend moves.
BlendScript(keyword, plane_to, a, v, r) ==
    keyword \o PoseFmt(PlanePose(plane_to))
    \o <<","," ","a"," ","="," ">> \o FmtF(a, 3)
    \o <<","," ","v"," ","="," ">> \o FmtF(v, 3)
    \o <<","," ","r"," ","="," ">> \o FmtF(r, 3)
    \o <<")","\n">>

move_l_blend(plane_to, accel, vel, blend_radius) ==
    LET a == ClampAccel(accel)
        v == ClampVel(vel)
        r == ClampBlend(blend_radius)
    IN Returned(BlendScript(<<"m","o","v","e","l","(">>, plane_to, a, v, r),
                a, v, r, TRUE)

move_p_blend(plane_to, accel, vel, blend_radius) ==
    LET a == ClampAccel(accel)
        v == ClampVel(vel)
        r == ClampBlend(blend_radius)
    IN Returned(BlendScript(<<"m","o","v","e","p","(">>, plane_to, a, v, r),
                a, v, r, TRUE)

\* The default of the blend_radius parameter.
DefaultBlend == Fin(0)

\* Mutant: accel and vel clamped as in the other moves.
move_j_clamped(joints, accel, vel) ==
    IF Len(joints) # 6 THEN Raised("TypeError")
    ELSE LET j == <<"[">>
                  \o Join([i \in 1..6 |-> FmtF(joints[i], 2)], <<",">>)
                  \o <<"]">>
             a == ClampAccel(accel)
             v == ClampVel(vel)
             script == <<"m","o","v","e","j","(">> \o j
                       \o <<","," ","a"," ","="," ">> \o FmtF(a, 2)
                       \o <<","," ","v"," ","="," ">> \o FmtF(v, 2)
                       \o <<")","\n">>
         IN Returned(script, a, v, Fin(0), FALSE)

\* "movej(%s, a = %.2f, v = %.2f)\n"; the six "%.2f" need exactly six joints.
move_j(joints, accel, vel) ==
    IF Len(joints) # 6 THEN Raised("TypeError")
    ELSE LET j == <<"[">>
                  \o Join([i \in 1..6 |-> FmtF(joints[i], 2)], <<",">>)
                  \o <<"]">>
             script == <<"m","o","v","e","j","(">> \o j
                       \o <<","," ","a"," ","="," ">> \o FmtF(accel, 2)
                       \o <<","," ","v"," ","="," ">> \o FmtF(vel, 2)
                       \o <<")","\n">>
         IN Returned(script, accel, vel, Fin(0), FALSE)

\* Mutant: the offsets are not converted from mm to m.
set_tcp_by_plane_mm(x_offset, y_offset, z_offset, ref_plane) ==
    LET extract == ref_plane # WorldXY
        aa == IF extract THEN matrix_to_axis_angle(PlaneToPlane(ref_plane))
              ELSE <<Fin(0), Fin(0), Fin(0)>>
        pose == <<x_offset, y_offset, z_offset, aa[1], aa[2], aa[3]>>
        script == <<"s","e","t","_","t","c","p","(">> \o PoseFmt(pose)
                  \o <<")","\n">>
    IN Returned(script, Fin(0), Fin(0), Fin(0), extract)

\* "set_tcp(%s)\n": the rotation is extracted only when ref_plane differs
\* from the world XY plane.
set_tcp_by_plane(x_offset, y_offset, z_offset, ref_plane) ==
    LET extract == ref_plane # WorldXY
        aa == IF extract THEN matrix_to_axis_angle(PlaneToPlane(ref_plane))
              ELSE <<Fin(0), Fin(0), Fin(0)>>
        pose == <<Div1000(x_offset), Div1000(y_offset), Div1000(z_offset),
                  aa[1], aa[2], aa[3]>>
        script == <<"s","e","t","_","t","c","p","(">> \o PoseFmt(pose)
                  \o <<")","\n">>
    IN Returned(script, Fin(0), Fin(0), Fin(0), extract)

\* ------------------------------------------------------------------ values
\* A Python value given to "%s" or compared with ==: an int, a bool (i is
\* 0 or 1), a float (i counts tenths), a str (s) or None.
PyInt(n) == [t |-> "int", i |-> n, s |-> <<>>]
PyBool(b) == [t |-> "bool", i |-> IF b THEN 1 ELSE 0, s |-> <<>>]
PyFloat(tenths) == [t |-> "float", i |-> tenths, s |-> <<>>]
PyStr(s) == [t |-> "str", i |-> 0, s |-> s]
PyNone == [t |-> "none", i |-> 0, s |-> <<>>]

\* "%s" % value
Str(x) ==
    CASE x.t = "int" -> (IF x.i < 0 THEN <<"-">> \o Digits(-x.i) ELSE Digits(x.i))
      [] x.t = "bool" -> (IF x.i = 1 THEN <<"T","r","u","e">>
                          ELSE <<"F","a","l","s","e">>)
      [] x.t = "float" -> (IF x.i < 0 THEN <<"-">> ELSE <<>>)
                          \o Digits((IF x.i < 0 THEN -x.i ELSE x.i) \div 10)
                          \o <<".">>
                          \o Digits((IF x.i < 0 THEN -x.i ELSE x.i) % 10)
      [] x.t = "str" -> x.s
      [] x.t = "none" -> <<"N","o","n","e">>

\* value == n for an int literal n (True == 1 and 1.0 == 1 in Python).
PyEq(x, n) ==
    \/ x.t \in {"int", "bool"} /\ x.i = n
    \/ x.t = "float" /\ x.i = 10 * n

\* s.replace("\n", "")
RemoveNewlines(s) == SelectSeq(s, LAMBDA c : c # "\n")

\* ------------------------------------------------------------------ auxiliary
\* Mutant: title and message swapped.
popup_swapped(message, title) ==
    <<"p","o","p","u","p","(","\"">> \o Str(title) \o <<"\"",",","\"">>
    \o Str(message) \o <<"\"",")"," ","\n">>

\* 'popup("%s","%s") \n'
popup(message, title) ==
    <<"p","o","p","u","p","(","\"">> \o Str(message) \o <<"\"",",","\"">>
    \o Str(title) \o <<"\"",")"," ","\n">>

\* "sleep(%s) \n"
sleep(time) == <<"s","l","e","e","p","(">> \o Str(time) \o <<")"," ","\n">>

\* "set_digital_out(%s,%s)\n"
set_digital_out(id, signal) ==
    <<"s","e","t","_","d","i","g","i","t","a","l","_","o","u","t","(">>
    \o Str(id) \o <<",">> \o Str(signal) \o <<")","\n">>

\* "get_standard_digital_in(%s) \n"
get_digital_in(id) ==
    <<"g","e","t","_","s","t","a","n","d","a","r","d","_","d","i","g","i","t","a","l","_","i","n","(">>
    \o Str(id) \o <<")"," ","\n">>

\* "set_standard_analog_out(%s,%s)\n"
set_standard_analog_out(n, f) ==
    <<"s","e","t","_","s","t","a","n","d","a","r","d","_","a","n","a","l","o","g","_","o","u","t","(">>
    \o Str(n) \o <<",">> \o Str(f) \o <<")","\n">>

\* 'textmsg("%s","%s") \n'
textmsg(s1, s2) ==
    <<"t","e","x","t","m","s","g","(","\"">> \o Str(s1) \o <<"\"",",","\"">>
    \o Str(s2) \o <<"\"",")"," ","\n">>

\* Mutant: the newline of c1 is kept.
multi_conditions_keep_c1(c1, c2) ==
    c1 \o <<"a","n","d"," ">> \o RemoveNewlines(c2)

\* c1.replace("\n", "") + "and " + c2.replace("\n", "")
multi_conditions(c1, c2) ==
    RemoveNewlines(c1) \o <<"a","n","d"," ">> \o RemoveNewlines(c2)

\* The keyword chosen by type; <<>> stands for `script` left unassigned.
ConditionKeyword(type) ==
    IF PyEq(type, 0) THEN <<"i","f"," ","\t">>
    ELSE IF PyEq(type, 1) THEN <<"w","h","i","l","e"," ","\t">>
    ELSE IF PyEq(type, 2) THEN <<"e","l","i","f"," ","\t">>
    ELSE <<>>

\* The text appended for bool: nothing when it equals neither True nor False.
ConditionLiteral(bool) ==
    IF PyEq(bool, 1) THEN <<" ","T","r","u","e",":"," ","\n">>
    ELSE IF PyEq(bool, 0) THEN <<" ","F","a","l","s","e",":"," ","\n">>
    ELSE <<>>

\* add_condition: `script += ...` on an unassigned local raises
\* UnboundLocalError.
add_condition(type, con, bool) ==
    IF ConditionKeyword(type) = <<>> THEN Raised("UnboundLocalError")
    ELSE Returned(ConditionKeyword(type) \o RemoveNewlines(con)
                  \o <<"\t","=","=","\t">> \o ConditionLiteral(bool),
                  Fin(0), Fin(0), Fin(0), FALSE)

\* "end\n"
end_condition == <<"e","n","d","\n">>

\* ------------------------------------------------------------------ inputs
Half == Unit \div 2

\* Floats for accel, vel and blend_radius: the multiples of 0.5, then 0.25,
\* -1.75, 5.0 and NaN.
Nums == {Fin(q * Half) : q \in -MaxQ..MaxQ}
        \cup {Fin(Unit \div 4), Fin(-7 * (Unit \div 4)), Fin(5 * Unit), NaN}

\* Origins in mm: (1000, 0, 0) and (-250.5, 300, 12.3).
Origins == {<<Fin(1000 * Unit), Fin(0), Fin(0)>>,
            <<Fin(-2505 * (Unit \div 10)), Fin(300 * Unit), Fin(123 * (Unit \div 10))>>}

\* Axes: the world axes, a quarter turn about Z, a quarter turn about X.
Orientations == {<<Vec(1, 0, 0), Vec(0, 1, 0)>>,
                 <<Vec(0, 1, 0), Vec(-1, 0, 0)>>,
                 <<Vec(1, 0, 0), Vec(0, 0, 1)>>}

Planes == {[origin |-> o, xaxis |-> ax[1], yaxis |-> ax[2]] :
           o \in Origins, ax \in Orientations}

\* Tool offsets in mm: 0, 1000, -250.5, 12.3.
Offsets == {Fin(0), Fin(1000 * Unit), Fin(-2505 * (Unit \div 10)),
            Fin(123 * (Unit \div 10))}

\* Joint vectors in degrees; the last one is one joint short.
JointVectors ==
    {<<Fin(10 * Unit), Fin(20 * Unit), Fin(30 * Unit),
       Fin(40 * Unit), Fin(50 * Unit), Fin(60 * Unit)>>,
     <<Fin(-905 * (Unit \div 10)), Fin(0), Fin(10 * Unit + 1260),
       Fin(175 * Unit), Fin(5 * (Unit \div 10)), Fin(-1 * Unit)>>,
     <<Fin(10 * Unit), Fin(20 * Unit), Fin(30 * Unit),
       Fin(40 * Unit), Fin(50 * Unit)>>}

\* move_j is also given 100, far above the limits of the other moves.
JointNums == Nums \cup {Fin(100 * Unit)}

Ids == {PyInt(i) : i \in 0..MaxId}
Signals == {PyBool(TRUE), PyBool(FALSE)}
Times == Ids \cup {PyFloat(5), PyFloat(20)}
Levels == {PyFloat(0), PyFloat(5), PyFloat(10)}
Messages == {PyStr(<<"H","e","l","l","o">>), PyStr(<<"T","i","t","l","e">>),
             PyStr(<<>>)}

\* Condition fragments: outputs of get_digital_in, a fragment ending in a
\* newline without the space, one without newline, and a two-line text.
Conditions ==
    {get_digital_in(id) : id \in Ids}
    \cup {<<"g","e","t","_","s","t","a","n","d","a","r","d","_","d","i","g","i","t","a","l","_","i","n","(","0",")","\n">>,
          <<"g","e","t","_","s","t","a","n","d","a","r","d","_","d","i","g","i","t","a","l","_","i","n","(","1",")","\n">>,
          <<"x"," ",">"," ","1">>,
          <<"a","\n","b","\n">>}

\* Values given as `type` and as `bool` of add_condition.
Kinds == {PyInt(k) : k \in -1..3} \cup {PyBool(TRUE), PyNone}
Bools == {PyBool(TRUE), PyBool(FALSE), PyNone, PyInt(0), PyInt(1), PyInt(2),
          PyStr(<<"T","r","u","e">>)}

\* ------------------------------------------------------------------ state
NoArgs == [plane |-> WorldXY, accel |-> Fin(0), vel |-> Fin(0),
           blend |-> Fin(0), blendGiven |-> FALSE, joints |-> <<>>,
           offsets |-> <<Fin(0), Fin(0), Fin(0)>>, refGiven |-> FALSE,
           p1 |-> PyNone, p2 |-> PyNone, c1 |-> <<>>, c2 |-> <<>>]

NoFmt == [a |-> Fin(0), v |-> Fin(0), r |-> Fin(0)]

Init ==
    /\ op = "none"
    /\ args = NoArgs
    /\ out = <<>>
    /\ raised = "none"
    /\ fmt = NoFmt
    /\ extracted = FALSE

\* The builders keep nothing between calls, so every call starts from the
\* state after import and the result of one call never feeds another.
Fresh == op = "none"

\* One call of a builder: the caller sees what it handed back.
Call(name, a, res) ==
    /\ op' = name
    /\ args' = a
    /\ out' = res.script
    /\ raised' = res.raised
    /\ fmt' = [a |-> res.a, v |-> res.v, r |-> res.r]
    /\ extracted' = res.extracted

\* One call of a builder that only formats text.
CallText(name, a, script) ==
    Call(name, a, Returned(script, Fin(0), Fin(0), Fin(0), FALSE))

MoveL ==
    /\ Fresh
    /\ \E p \in Planes, accel \in Nums, vel \in Nums :
           Call("move_l", [NoArgs EXCEPT !.plane = p, !.accel = accel, !.vel = vel],
                move_l(p, accel, vel))

MoveLBlend ==
    /\ Fresh
    /\ \E p \in Planes, accel \in Nums, vel \in Nums :
           \/ \E b \in Nums :
                 Call("move_l_blend",
                      [NoArgs EXCEPT !.plane = p, !.accel = accel, !.vel = vel,
                                     !.blend = b, !.blendGiven = TRUE],
                      move_l_blend(p, accel, vel, b))
           \/ Call("move_l_blend",
                   [NoArgs EXCEPT !.plane = p, !.accel = accel, !.vel = vel,
                                  !.blend = DefaultBlend],
                   move_l_blend(p, accel, vel, DefaultBlend))

MovePBlend ==
    /\ Fresh
    /\ \E p \in Planes, accel \in Nums, vel \in Nums :
           \/ \E b \in Nums :
                 Call("move_p_blend",
                      [NoArgs EXCEPT !.plane = p, !.accel = accel, !.vel = vel,
                                     !.blend = b, !.blendGiven = TRUE],
                      move_p_blend(p, accel, vel, b))
           \/ Call("move_p_blend",
                   [NoArgs EXCEPT !.plane = p, !.accel = accel, !.vel = vel,
                                  !.blend = DefaultBlend],
                   move_p_blend(p, accel, vel, DefaultBlend))

MoveJ ==
    /\ Fresh
    /\ \E j \in JointVectors, accel \in JointNums, vel \in JointNums :
           Call("move_j", [NoArgs EXCEPT !.joints = j, !.accel = accel, !.vel = vel],
                move_j(j, accel, vel))

SetTcpByPlane ==
    /\ Fresh
    /\ \E x \in Offsets, y \in Offsets, z \in Offsets :
           \/ \E ref \in Planes \cup {WorldXY} :
                 Call("set_tcp_by_plane",
                      [NoArgs EXCEPT !.offsets = <<x, y, z>>, !.plane = ref,
                                     !.refGiven = TRUE],
                      set_tcp_by_plane(x, y, z, ref))
           \/ Call("set_tcp_by_plane", [NoArgs EXCEPT !.offsets = <<x, y, z>>],
                   set_tcp_by_plane(x, y, z, WorldXY))

Popup ==
    /\ Fresh
    /\ \E m \in Messages, t \in Messages :
           CallText("popup", [NoArgs EXCEPT !.p1 = m, !.p2 = t], popup(m, t))

Sleep ==
    /\ Fresh
    /\ \E t \in Times : CallText("sleep", [NoArgs EXCEPT !.p1 = t], sleep(t))

SetDigitalOut ==
    /\ Fresh
    /\ \E id \in Ids, signal \in Signals :
           CallText("set_digital_out", [NoArgs EXCEPT !.p1 = id, !.p2 = signal],
                    set_digital_out(id, signal))

GetDigitalIn ==
    /\ Fresh
    /\ \E id \in Ids :
           CallText("get_digital_in", [NoArgs EXCEPT !.p1 = id], get_digital_in(id))

SetStandardAnalogOut ==
    /\ Fresh
    /\ \E n \in Ids, f \in Levels :
           CallText("set_standard_analog_out", [NoArgs EXCEPT !.p1 = n, !.p2 = f],
                    set_standard_analog_out(n, f))

Textmsg ==
    /\ Fresh
    /\ \E s1 \in Messages, s2 \in Messages :
           CallText("textmsg", [NoArgs EXCEPT !.p1 = s1, !.p2 = s2], textmsg(s1, s2))

MultiConditions ==
    /\ Fresh
    /\ \E c1 \in Conditions, c2 \in Conditions :
           CallText("multi_conditions", [NoArgs EXCEPT !.c1 = c1, !.c2 = c2],
                    multi_conditions(c1, c2))

AddCondition ==
    /\ Fresh
    /\ \E type \in Kinds, con \in Conditions, bool \in Bools :
           Call("add_condition", [NoArgs EXCEPT !.p1 = type, !.c1 = con, !.p2 = bool],
                add_condition(type, con, bool))

EndCondition ==
    /\ Fresh
    /\ CallText("end_condition", NoArgs, end_condition)

Next ==
    \/ MoveL
    \/ MoveLBlend
    \/ MovePBlend
    \/ MoveJ
    \/ SetTcpByPlane
    \/ Popup
    \/ Sleep
    \/ SetDigitalOut
    \/ GetDigitalIn
    \/ SetStandardAnalogOut
    \/ Textmsg
    \/ MultiConditions
    \/ AddCondition
    \/ EndCondition

Spec == Init /\ [][Next]_vars

\* ------------------------------------------------------------------ checks
\* Helpers of the properties, written without the builders' operators.
StartsWith(s, pre) == Len(s) >= Len(pre) /\ SubSeq(s, 1, Len(pre)) = pre
EndsWith(s, suf) ==
    Len(s) >= Len(suf) /\ SubSeq(s, Len(s) - Len(suf) + 1, Len(s)) = suf
Contains(s, sub) ==
    \E i \in 1..(Len(s) + 1) :
        i + Len(sub) - 1 <= Len(s) /\ SubSeq(s, i, i + Len(sub) - 1) = sub
HasNewline(s) == \E i \in 1..Len(s) : s[i] = "\n"
\* s without one newline at its end.
StripTrailingNewline(s) ==
    IF Len(s) > 0 /\ s[Len(s)] = "\n" THEN SubSeq(s, 1, Len(s) - 1) ELSE s
\* min(|n|, max) on the integers.
MinAbs(n, max) ==
    LET m == IF n < 0 THEN -n ELSE n IN IF m < max THEN m ELSE max

IsClampedMove == op \in {"move_l", "move_l_blend", "move_p_blend"}
IsBlendMove == op \in {"move_l_blend", "move_p_blend"}
\* The decimals of the a and v fields of the move just built.
MoveDecimals == IF op = "move_l" THEN 2 ELSE 3

\* C1: for every real accel and vel, move_l, move_l_blend and move_p_blend
\* emit a' = min(|accel|, 2.5) and v' = min(|vel|, 2.5), both within [0, 2.5].
C1_ClampedAccelVel ==
    (IsClampedMove /\ ~args.accel.nan /\ ~args.vel.nan) =>
        /\ raised = "none"
        /\ ~fmt.a.nan /\ 0 <= fmt.a.v /\ fmt.a.v <= MAX_ACCEL
        /\ ~fmt.v.nan /\ 0 <= fmt.v.v /\ fmt.v.v <= MAX_VELOCITY
        /\ fmt.a.v = MinAbs(args.accel.v, MAX_ACCEL)
        /\ fmt.v.v = MinAbs(args.vel.v, MAX_VELOCITY)
        /\ Contains(out, <<","," ","a"," ","="," ">>
                         \o FmtF(Fin(MinAbs(args.accel.v, MAX_ACCEL)), MoveDecimals)
                         \o <<","," ","v"," ","="," ">>
                         \o FmtF(Fin(MinAbs(args.vel.v, MAX_VELOCITY)), MoveDecimals))

\* A blend move asked for accel -3.0 and vel 5.0 was built with 2.5 and 2.5.
C1_Witness ==
    /\ op = "move_l_blend"
    /\ args.accel = Fin(-3 * Unit) /\ args.vel = Fin(5 * Unit)
    /\ fmt.a = Fin(MAX_ACCEL) /\ fmt.v = Fin(MAX_VELOCITY)
    /\ Contains(out, <<"a"," ","="," ","2",".","5","0","0",",">>)

\* The pose text of the plane given to the move, at 4 decimal places.
ArgPose == PoseFmt(PlanePose(args.plane))

\* C2 as stated: move_l returns "movel(p[...], a=A, v=V)\n" with no spaces
\* around "=", and the example returns the example text.
C2_Original ==
    (op = "move_l" /\ ~args.accel.nan /\ ~args.vel.nan) =>
        /\ out = <<"m","o","v","e","l","(">> \o ArgPose
                 \o <<","," ","a","=">>
                 \o FmtF(Fin(MinAbs(args.accel.v, MAX_ACCEL)), 2)
                 \o <<","," ","v","=">>
                 \o FmtF(Fin(MinAbs(args.vel.v, MAX_VELOCITY)), 2)
                 \o <<")","\n">>

\* The example of C2: origin (1000, 0, 0) mm, no rotation, accel 5.0, vel -3.0.
C2_Example ==
    /\ op = "move_l"
    /\ args.plane = [WorldXY EXCEPT !.origin = <<Fin(1000 * Unit), Fin(0), Fin(0)>>]
    /\ args.accel = Fin(5 * Unit)
    /\ args.vel = Fin(-3 * Unit)

\* C2 amended: move_l returns "movel(p[...], a = A, v = V)\n", one space on
\* each side of "=", pose fields at 4 decimals, A and V at 2; the example
\* returns "movel(p[1.0000,0.0000,0.0000,0.0000,0.0000,0.0000], a = 2.50, v = 2.50)\n".
C2_Amended ==
    /\ (op = "move_l" /\ ~args.accel.nan /\ ~args.vel.nan) =>
          out = <<"m","o","v","e","l","(">> \o ArgPose
                \o <<","," ","a"," ","="," ">>
                \o FmtF(Fin(MinAbs(args.accel.v, MAX_ACCEL)), 2)
                \o <<","," ","v"," ","="," ">>
                \o FmtF(Fin(MinAbs(args.vel.v, MAX_VELOCITY)), 2)
                \o <<")","\n">>
    /\ C2_Example =>
          out = <<"m","o","v","e","l","(","p","[","1",".","0","0","0","0",",","0",".","0","0","0","0",",","0",".","0","0","0","0",",","0",".","0","0","0","0",",","0",".","0","0","0","0",",","0",".","0","0","0","0","]",","," ","a"," ","="," ","2",".","5","0",","," ","v"," ","="," ","2",".","5","0",")","\n">>

\* The example call of move_l has returned.
C2_Witness == C2_Example /\ raised = "none" /\ Len(out) > 0

\* C3 as stated: a NaN accel or vel does not fail and is normalized into
\* [0, 2.5]; no NaN reaches the emitted text.
C3_NaNNormalized ==
    (IsClampedMove /\ (args.accel.nan \/ args.vel.nan)) =>
        /\ raised = "none"
        /\ ~fmt.a.nan /\ 0 <= fmt.a.v /\ fmt.a.v <= MAX_ACCEL
        /\ ~fmt.v.nan /\ 0 <= fmt.v.v /\ fmt.v.v <= MAX_VELOCITY
        /\ ~Contains(out, <<"n","a","n">>)

\* C4: move_l_blend and move_p_blend emit r = 0 for every blend < 0, r = blend
\* for every blend >= 0, and r = 0 when blend is omitted.
C4_BlendRadius ==
    (IsBlendMove /\ ~args.blend.nan) =>
        LET want == IF ~args.blendGiven \/ args.blend.v < 0 THEN 0
                    ELSE args.blend.v
        IN /\ raised = "none"
           /\ fmt.r = Fin(want)
           /\ args.blend.v < 0 => FmtF(fmt.r, 3) = <<"0",".","0","0","0">>
           /\ EndsWith(out, <<","," ","r"," ","="," ">> \o FmtF(Fin(want), 3)
                            \o <<")","\n">>)

\* A process move asked for blend -1.75 was built with r = 0.000.
C4_Witness ==
    /\ op = "move_p_blend"
    /\ args.blendGiven /\ args.blend = Fin(-7 * (Unit \div 4))
    /\ fmt.r = Fin(0)
    /\ EndsWith(out, <<"r"," ","="," ","0",".","0","0","0",")","\n">>)

\* The joint text of move_j's argument, at 2 decimal places.
ArgJoints ==
    <<"[">> \o Join([i \in 1..Len(args.joints) |-> FmtF(args.joints[i], 2)], <<",">>)
    \o <<"]">>

\* The example of C5: joints 10..60, accel 100, vel 100.
C5_Example ==
    /\ op = "move_j"
    /\ args.joints = <<Fin(10 * Unit), Fin(20 * Unit), Fin(30 * Unit),
                       Fin(40 * Unit), Fin(50 * Unit), Fin(60 * Unit)>>
    /\ args.accel = Fin(100 * Unit)
    /\ args.vel = Fin(100 * Unit)

OneLine(c) == \A i \in 1..(Len(c) - 1) : c[i] # "\n"

\* C6: multi_conditions returns c1 without its trailing newline, "and ", c2
\* without its trailing newline; the result holds no newline; the example and
\* the outputs of get_digital_in follow the same rule.
C6_CombinedCondition ==
    op = "multi_conditions" =>
        /\ raised = "none"
        /\ ~HasNewline(out)
        /\ (OneLine(args.c1) /\ OneLine(args.c2)) =>
              out = StripTrailingNewline(args.c1) \o <<"a","n","d"," ">>
                    \o StripTrailingNewline(args.c2)
        /\ (/\ args.c1 = <<"g","e","t","_","s","t","a","n","d","a","r","d","_","d","i","g","i","t","a","l","_","i","n","(","0",")","\n">>
            /\ args.c2 = <<"g","e","t","_","s","t","a","n","d","a","r","d","_","d","i","g","i","t","a","l","_","i","n","(","1",")","\n">>) =>
              out = <<"g","e","t","_","s","t","a","n","d","a","r","d","_","d","i","g","i","t","a","l","_","i","n","(","0",")","a","n","d"," ","g","e","t","_","s","t","a","n","d","a","r","d","_","d","i","g","i","t","a","l","_","i","n","(","1",")">>

\* Two outputs of get_digital_in were combined into one line.
C6_Witness ==
    /\ op = "multi_conditions"
    /\ args.c1 = get_digital_in(PyInt(0)) /\ args.c2 = get_digital_in(PyInt(1))
    /\ HasNewline(args.c1) /\ HasNewline(args.c2)
    /\ Contains(out, <<")"," ","a","n","d"," ","g","e","t">>)

\* The keyword, the condition and the literal of the add_condition call, as
\* the protocol grammar names them.
GrammarKeyword ==
    IF args.p1 = PyInt(0) THEN <<"i","f">>
    ELSE IF args.p1 = PyInt(1) THEN <<"w","h","i","l","e">>
    ELSE <<"e","l","i","f">>
GrammarLiteral ==
    IF args.p2 = PyBool(TRUE) THEN <<"T","r","u","e">> ELSE <<"F","a","l","s","e">>

\* C7 as stated: for kind 0, 1, 2 and expected_bool True or False,
\* add_condition returns "<keyword> <condition> == <True|False>:" and a
\* newline, separated by single spaces.
C7_GrammarLine ==
    (/\ op = "add_condition"
     /\ args.p1 \in {PyInt(0), PyInt(1), PyInt(2)}
     /\ args.p2 \in {PyBool(TRUE), PyBool(FALSE)}) =>
        /\ raised = "none"
        /\ out = GrammarKeyword \o <<" ">> \o RemoveNewlines(args.c1)
                 \o <<" ","=","="," ">> \o GrammarLiteral \o <<":","\n">>

\* name(arg,arg), the form every auxiliary line of the protocol grammar has.
GrammarCall(name, arguments) ==
    name \o <<"(">> \o Join(arguments, <<",">>) \o <<")">>
Quoted(x) == <<"\"">> \o Str(x) \o <<"\"">>

AuxiliaryOps == {"popup", "textmsg", "sleep", "set_digital_out",
                 "get_digital_in", "set_standard_analog_out", "end_condition"}

\* The grammar line of the auxiliary builder just called, without newline.
AuxiliaryLine ==
    CASE op = "popup" ->
           GrammarCall(<<"p","o","p","u","p">>, <<Quoted(args.p1), Quoted(args.p2)>>)
      [] op = "textmsg" ->
           GrammarCall(<<"t","e","x","t","m","s","g">>,
                       <<Quoted(args.p1), Quoted(args.p2)>>)
      [] op = "sleep" -> GrammarCall(<<"s","l","e","e","p">>, <<Str(args.p1)>>)
      [] op = "set_digital_out" ->
           GrammarCall(<<"s","e","t","_","d","i","g","i","t","a","l","_","o","u","t">>,
                       <<Str(args.p1), Str(args.p2)>>)
      [] op = "get_digital_in" ->
           GrammarCall(<<"g","e","t","_","s","t","a","n","d","a","r","d","_","d","i","g","i","t","a","l","_","i","n">>,
                       <<Str(args.p1)>>)
      [] op = "set_standard_analog_out" ->
           GrammarCall(<<"s","e","t","_","s","t","a","n","d","a","r","d","_","a","n","a","l","o","g","_","o","u","t">>,
                       <<Str(args.p1), Str(args.p2)>>)
      [] OTHER -> <<"e","n","d">>

\* C8 as stated: every auxiliary builder returns its grammar line followed
\* by a single newline and nothing else.
C8_Original ==
    op \in AuxiliaryOps => (raised = "none" /\ out = AuxiliaryLine \o <<"\n">>)

\* The builders whose format string has a space before the newline.
SpacedOps == {"popup", "textmsg", "sleep", "get_digital_in"}

\* C8 amended: popup, textmsg, sleep and get_digital_in return their grammar
\* line, one space and a newline; set_digital_out, set_standard_analog_out
\* and end_condition return their grammar line and a newline.
C8_Amended ==
    op \in AuxiliaryOps =>
        /\ raised = "none"
        /\ out = AuxiliaryLine
                 \o (IF op \in SpacedOps THEN <<" ","\n">> ELSE <<"\n">>)

\* sleep(0.5) returned "sleep(0.5) \n".
C8_Witness ==
    /\ op = "sleep" /\ args.p1 = PyFloat(5)
    /\ out = <<"s","l","e","e","p","(","0",".","5",")"," ","\n">>

\* C9: set_tcp_by_plane with the world XY plane as ref_plane, given or
\* omitted, returns "set_tcp(p[x,y,z,0.0000,0.0000,0.0000])\n" with the
\* offsets divided by 1000 at 4 decimals, and extracts no axis-angle.
C9_WorldFastPath ==
    (op = "set_tcp_by_plane" /\ args.plane = WorldXY) =>
        /\ raised = "none"
        /\ ~extracted
        /\ out = <<"s","e","t","_","t","c","p","(","p","[">>
                 \o Join([i \in 1..3 |-> FmtF(Fin(args.offsets[i].v \div 1000), 4)],
                         <<",">>)
                 \o <<",","0",".","0","0","0","0",",","0",".","0","0","0","0",",","0",".","0","0","0","0","]",")","\n">>
        /\ args.offsets = <<Fin(1000 * Unit), Fin(-2505 * (Unit \div 10)),
                            Fin(123 * (Unit \div 10))>> =>
              out = <<"s","e","t","_","t","c","p","(","p","[","1",".","0","0","0","0",",","-","0",".","2","5","0","5",",","0",".","0","1","2","3",",","0",".","0","0","0","0",",","0",".","0","0","0","0",",","0",".","0","0","0","0","]",")","\n">>

\* Offsets (1000, -250.5, 12.3) mm with ref_plane omitted.
C9_Witness ==
    /\ op = "set_tcp_by_plane" /\ ~args.refGiven /\ args.plane = WorldXY
    /\ args.offsets = <<Fin(1000 * Unit), Fin(-2505 * (Unit \div 10)),
                        Fin(123 * (Unit \div 10))>>
    /\ ~extracted
    /\ Len(out) > 0

\* s without its spaces and tabs.
Squeeze(s) == SelectSeq(s, LAMBDA c : c \notin {" ", "\t"})

\* C10 as stated: a kind equal to none of 0, 1, 2 ends in an error and
\* returns no text, and every text add_condition returns starts with "if",
\* "while" or "elif" and ends with a boolean literal, a colon and a newline
\* (spaces and tabs aside), whatever expected_bool is.
C10_NeverSilent ==
    op = "add_condition" =>
        /\ (~PyEq(args.p1, 0) /\ ~PyEq(args.p1, 1) /\ ~PyEq(args.p1, 2)) =>
              (raised # "none" /\ out = <<>>)
        /\ raised = "none" =>
              /\ \/ StartsWith(out, <<"i","f">>)
                 \/ StartsWith(out, <<"w","h","i","l","e">>)
                 \/ StartsWith(out, <<"e","l","i","f">>)
              /\ \/ EndsWith(Squeeze(out), <<"T","r","u","e",":","\n">>)
                 \/ EndsWith(Squeeze(out), <<"F","a","l","s","e",":","\n">>)

====
